---------------------------- MODULE Spec2Model ----------------------------
(***************************************************************************)
(* A model of src/src/DataPipeline.py: the DataPipeline class that walks   *)
(* a static asset catalog, downloads a daily price history per ticker from *)
(* the provider (yfinance), and upserts it into two SQLite tables,         *)
(* price_data and returns_data, through one sqlite3 connection.            *)
(*                                                                         *)
(* Dates are day numbers.  Prices are integers and returns are exact       *)
(* fractions [num, den] in lowest terms (the code computes them in         *)
(* floating point).  The connection is modelled with two copies of each    *)
(* table: what statements on the connection see (price_data,               *)
(* returns_data) and what has been committed (committed_price,             *)
(* committed_returns); sqlite3 opens a transaction implicitly before the   *)
(* first INSERT and only commit() makes its rows durable.                  *)
(***************************************************************************)
EXTENDS Integers, Sequences, FiniteSets, TLC

\* SQL NULL, pandas NaN, Python None
NULL == "NULL"

(***************************************************************************)
(* Bounds of the model.                                                    *)
(***************************************************************************)
\* the provider has observations for the days 1..MaxDate
MaxDate == 24
\* the provider may revise its data: revisions 0..MaxRevision
MaxRevision == 1
\* number of build_database calls in one behaviour
MaxRuns == 2
\* number of storage faults (a failing executemany or commit) in one behaviour
MaxFaults == 1
\* a failing executemany has applied at most this many rows (or all of them,
\* when it is the commit that fails)
MaxPartial == 1
\* number of close_connection calls in one behaviour
MaxCloses == 2
\* the series given to calculate_and_store_returns on its own: at most
\* MaxObs observations, adjusted close base + inc * i + bend * i * (i - 1) / 2
MaxObs == 23
MaxBase == 3
MaxInc == 2
MaxBend == 1

(***************************************************************************)
(* The catalog (self.assets), reduced to one ticker each of two of its     *)
(* asset classes; the code walks the classes in insertion order and the    *)
(* tickers of a class in list order.                                       *)
(***************************************************************************)
assets ==
    << [asset_class |-> "equities",   tickers |-> <<"AAPL">>],
       [asset_class |-> "volatility", tickers |-> <<"^VIX">>] >>

RECURSIVE Flatten(_, _)
Flatten(a, i) ==
    IF i > Len(a) THEN << >>
    ELSE [j \in 1..Len(a[i].tickers) |->
             [asset_class |-> a[i].asset_class, ticker |-> a[i].tickers[j]]]
         \o Flatten(a, i + 1)

\* the (asset_class, ticker) pairs in the order of the two nested loops
Catalog == Flatten(assets, 1)

Tickers == {Catalog[i].ticker : i \in 1..Len(Catalog)}

TickerNo(t) == CHOOSE i \in 1..Len(Catalog) : Catalog[i].ticker = t

\* the horizons of return_1d, return_5d, return_21d
Periods == <<1, 5, 21>>

(***************************************************************************)
(* The provider: yf.Ticker(ticker).history(start, end, auto_adjust=False). *)
(* One observation per day in [start, end); Close and Adj Close differ.    *)
(***************************************************************************)
AdjCloseOf(t, d, rev) == 40 * TickerNo(t) + 3 * d + rev * ((d % 4) + 1)

Observation(t, d, rev) ==
    LET adj == AdjCloseOf(t, d, rev)
    IN  [date |-> d, Open |-> adj + 6, High |-> adj + 9, Low |-> adj + 5,
         Close |-> adj + 7 + (d % 2), Volume |-> 1000 + 10 * d + rev,
         Adj_Close |-> adj]

Max(a, b) == IF a >= b THEN a ELSE b
Min(a, b) == IF a <= b THEN a ELSE b

history(t, s, e, rev) ==
    LET lo == Max(s, 1)
        hi == Min(e - 1, MaxDate)
    IN  IF hi < lo THEN << >>
        ELSE [i \in 1..(hi - lo + 1) |-> Observation(t, lo + i - 1, rev)]

\* what one provider call can do
ProviderOutcomes ==
    [kind : {"data"}, rev : 0..MaxRevision]
        \cup [kind : {"empty", "ValueError", "Exception"}, rev : {0}]

(***************************************************************************)
(* download_data: the range check, the provider call inside try/except,    *)
(* and the empty check.  exc is the exception that leaves the function,    *)
(* none says that it returned None, calls is the number of provider        *)
(* invocations made.                                                       *)
(***************************************************************************)
\* the range checked only after the provider was asked
download_data_late_check(t, s, e, o) ==
    IF e <= s
    THEN [exc |-> "ValueError", none |-> TRUE, df |-> << >>, calls |-> 1]
    ELSE IF o.kind \in {"ValueError", "Exception", "empty"}
    THEN [exc |-> NULL, none |-> TRUE, df |-> << >>, calls |-> 1]
    ELSE [exc |-> NULL, none |-> FALSE, df |-> history(t, s, e, o.rev),
          calls |-> 1]

\* only the ValueError of the provider caught
download_data_narrow_except(t, s, e, o) ==
    IF e <= s
    THEN [exc |-> "ValueError", none |-> TRUE, df |-> << >>, calls |-> 0]
    ELSE IF o.kind \in {"ValueError", "empty"}
    THEN [exc |-> NULL, none |-> TRUE, df |-> << >>, calls |-> 1]
    ELSE IF o.kind = "Exception"
    THEN [exc |-> "Exception", none |-> TRUE, df |-> << >>, calls |-> 1]
    ELSE [exc |-> NULL, none |-> FALSE, df |-> history(t, s, e, o.rev),
          calls |-> 1]

download_data(t, s, e, o) ==
    IF e <= s
    THEN [exc |-> "ValueError", none |-> TRUE, df |-> << >>, calls |-> 0]
    ELSE IF o.kind = "ValueError"
    THEN [exc |-> NULL, none |-> TRUE, df |-> << >>, calls |-> 1]
    ELSE IF o.kind = "Exception"
    THEN [exc |-> NULL, none |-> TRUE, df |-> << >>, calls |-> 1]
    ELSE LET got == IF o.kind = "empty" THEN << >> ELSE history(t, s, e, o.rev)
         IN  IF got = << >>
             THEN [exc |-> NULL, none |-> TRUE, df |-> << >>, calls |-> 1]
             ELSE [exc |-> NULL, none |-> FALSE, df |-> got, calls |-> 1]

(***************************************************************************)
(* Fractions, for pct_change.                                              *)
(***************************************************************************)
RECURSIVE GCD(_, _)
GCD(a, b) == IF b = 0 THEN a ELSE GCD(b, a % b)

Abs(x) == IF x < 0 THEN -x ELSE x

\* NaN (stored by sqlite3 as NULL): the fraction with denominator 0
NaN == [num |-> 0, den |-> 0]

\* n/d in lowest terms, d > 0
Frac(n, d) ==
    LET g == GCD(Abs(n), Abs(d))
        s == IF d < 0 THEN -1 ELSE 1
    IN  [num |-> s * (n \div g), den |-> s * (d \div g)]

\* Series.pct_change(periods=k): x / x.shift(k) - 1, NaN where the shifted
\* value does not exist
pct_change(x, k) ==
    [i \in 1..Len(x) |->
        IF i - k < 1 THEN NaN
        ELSE LET q == Frac(x[i], x[i - k])
             IN  Frac(q.num - q.den, q.den)]

(***************************************************************************)
(* The rows the two store functions hand to executemany.                   *)
(***************************************************************************)
PriceRows(t, frame, class) ==
    [i \in 1..Len(frame) |->
        [ticker |-> t, date |-> frame[i].date, open |-> frame[i].Open,
         high |-> frame[i].High, low |-> frame[i].Low,
         close |-> frame[i].Close, volume |-> frame[i].Volume,
         adjusted_close |-> frame[i].Adj_Close, asset_class |-> class]]

\* the ticker written into the asset_class column
ReturnRows_class_is_ticker(t, frame, class) ==
    LET adj == [i \in 1..Len(frame) |-> frame[i].Adj_Close]
        r1  == pct_change(adj, Periods[1])
        r5  == pct_change(adj, Periods[2])
        r21 == pct_change(adj, Periods[3])
    IN  [i \in 1..Len(frame) |->
            [ticker |-> t, date |-> frame[i].date, return_1d |-> r1[i],
             return_5d |-> r5[i], return_21d |-> r21[i],
             asset_class |-> t]]

\* the returns taken from the raw close
ReturnRows_raw_close(t, frame, class) ==
    LET raw == [i \in 1..Len(frame) |-> frame[i].Close]
        r1  == pct_change(raw, Periods[1])
        r5  == pct_change(raw, Periods[2])
        r21 == pct_change(raw, Periods[3])
    IN  [i \in 1..Len(frame) |->
            [ticker |-> t, date |-> frame[i].date, return_1d |-> r1[i],
             return_5d |-> r5[i], return_21d |-> r21[i],
             asset_class |-> class]]

ReturnRows(t, frame, class) ==
    LET adj == [i \in 1..Len(frame) |-> frame[i].Adj_Close]
        r1  == pct_change(adj, Periods[1])
        r5  == pct_change(adj, Periods[2])
        r21 == pct_change(adj, Periods[3])
    IN  [i \in 1..Len(frame) |->
            [ticker |-> t, date |-> frame[i].date, return_1d |-> r1[i],
             return_5d |-> r5[i], return_21d |-> r21[i],
             asset_class |-> class]]

(***************************************************************************)
(* INSERT OR REPLACE under PRIMARY KEY (ticker, date): a row with the same *)
(* key is deleted, then the new row is inserted.                           *)
(***************************************************************************)
Key(r) == <<r.ticker, r.date>>

\* INSERT into a table without the primary key
InsertOrReplace_no_key(table, row) == table \cup {row}

\* INSERT OR IGNORE: an existing row with the key is kept
InsertOrReplace_ignore(table, row) ==
    IF \E r \in table : Key(r) = Key(row) THEN table ELSE table \cup {row}

InsertOrReplace(table, row) ==
    {r \in table : Key(r) # Key(row)} \cup {row}

\* executemany: the statement run for the first n rows, in order
RECURSIVE executemany(_, _, _)
executemany(table, rows, n) ==
    IF n = 0 THEN table
    ELSE InsertOrReplace(executemany(table, rows, n - 1), rows[n])


(***************************************************************************)
(* State.                                                                  *)
(***************************************************************************)
VARIABLES
    connection,        \* state of the handle self.connection refers to
    price_data,        \* price_data as statements on the connection see it
    returns_data,      \* returns_data as statements on the connection see it
    committed_price,   \* price_data as committed to the database file
    committed_returns, \* returns_data as committed to the database file
    pc,                \* where build_database stands
    start, end,        \* arguments of the build_database call in progress
    idx,               \* position of the loops in Catalog
    df,                \* the frame download_data returned for Catalog[idx]
    result,            \* how the most recent build_database call ended
    released,          \* history: times the database handle was released
    closes,            \* history: close_connection calls
    runs,              \* history: build_database calls
    faults,            \* history: storage faults
    providerCalls,     \* history: provider calls of this build_database call
    fetched,           \* history: ticker -> what download_data gave, this call
    written_price,     \* history: tickers whose price rows were written, this call
    written_returns,   \* history: tickers whose return rows were written, this call
    touched,           \* history: tickers a write statement ran for, this call
    prev,              \* history: the build_database call before this one
    snap,              \* history: the tables when this build_database call began
    lastCall,          \* history: key -> row of the latest successful store_price_data
    priceFailed,       \* history: some store_price_data call has failed
    lastOp             \* history: the method called last

store == <<price_data, returns_data, committed_price, committed_returns>>

vars == <<connection, price_data, returns_data, committed_price,
          committed_returns, pc, start, end, idx, df, result, released,
          closes, runs, faults, providerCalls, fetched, written_price,
          written_returns, touched, prev, snap, lastCall, priceFailed,
          lastOp>>

EmptyFun == [x \in {} |-> NULL]

Snapshot == [price |-> price_data, returns |-> returns_data,
             committed_price |-> committed_price,
             committed_returns |-> committed_returns]

\* __init__ on a new database file: _setup_database connects, creates the
\* two empty tables and commits
Init ==
    /\ connection = "open"
    /\ price_data = {}
    /\ returns_data = {}
    /\ committed_price = {}
    /\ committed_returns = {}
    /\ pc = "idle"
    /\ start = 0
    /\ end = 0
    /\ idx = 0
    /\ df = << >>
    /\ result = "none"
    /\ released = 0
    /\ closes = 0
    /\ runs = 0
    /\ faults = 0
    /\ providerCalls = 0
    /\ fetched = EmptyFun
    /\ written_price = {}
    /\ written_returns = {}
    /\ touched = {}
    /\ prev = [ok |-> FALSE, range |-> <<0, 0>>, fetched |-> EmptyFun]
    /\ snap = [price |-> {}, returns |-> {}, committed_price |-> {},
               committed_returns |-> {}]
    /\ lastCall = EmptyFun
    /\ priceFailed = FALSE
    /\ lastOp = "__init__"

\* Connection.close() releasing the handle on every call
close_connection_release_again ==
    /\ pc = "idle"
    /\ closes < MaxCloses
    /\ closes' = closes + 1
    /\ lastOp' = "close_connection"
    /\ connection' = "closed"
    /\ released' = released + 1
    /\ price_data' = committed_price
    /\ returns_data' = committed_returns
    /\ UNCHANGED <<committed_price, committed_returns, pc, start, end, idx,
                   df, result, runs, faults, providerCalls, fetched,
                   written_price, written_returns, touched, prev, snap,
                   lastCall, priceFailed>>

(***************************************************************************)
(* close_connection.  self.connection is never reset to None, so the test  *)
(* passes on every call and Connection.close() is called each time; on a   *)
(* handle already closed sqlite3's close() does nothing.  Closing rolls    *)
(* back the open transaction.                                              *)
(***************************************************************************)
close_connection ==
    /\ pc = "idle"
    /\ closes < MaxCloses
    /\ closes' = closes + 1
    /\ lastOp' = "close_connection"
    /\ IF connection = "open"
       THEN /\ connection' = "closed"
            /\ released' = released + 1
            /\ price_data' = committed_price
            /\ returns_data' = committed_returns
       ELSE UNCHANGED <<connection, released, price_data, returns_data>>
    /\ UNCHANGED <<committed_price, committed_returns, pc, start, end, idx,
                   df, result, runs, faults, providerCalls, fetched, written_price,
                   written_returns, touched, prev, snap, lastCall,
                   priceFailed>>

(***************************************************************************)
(* build_database(start, end): the call, up to the first download_data.    *)
(***************************************************************************)
StartDates == {1, MaxDate - 6, MaxDate + 1}
EndDates == {1, MaxDate + 1}

\* what download_data gave, whatever made it give None
Gave(f) == [t \in DOMAIN f |-> [none |-> f[t].none, rev |-> f[t].rev]]

build_database ==
    /\ pc = "idle"
    /\ runs < MaxRuns
    /\ \E s \in StartDates, e \in EndDates :
          /\ start' = s
          /\ end' = e
    /\ runs' = runs + 1
    /\ idx' = 1
    /\ df' = << >>
    /\ pc' = "download"
    /\ result' = "running"
    /\ lastOp' = "build_database"
    /\ providerCalls' = 0
    /\ fetched' = EmptyFun
    /\ written_price' = {}
    /\ written_returns' = {}
    /\ touched' = {}
    /\ prev' = [ok |-> result = "returned" /\ lastOp = "build_database",
                range |-> <<start, end>>, fetched |-> Gave(fetched)]
    /\ snap' = Snapshot
    /\ UNCHANGED <<connection, store, released, closes, faults, lastCall,
                   priceFailed>>

\* the end of one pass of the inner loop: the next catalog entry, or the
\* normal return of build_database
NextEntry ==
    IF idx < Len(Catalog)
    THEN /\ idx' = idx + 1
         /\ pc' = "download"
         /\ UNCHANGED result
    ELSE /\ idx' = idx
         /\ pc' = "idle"
         /\ result' = "returned"

\* df = self.download_data(ticker, start, end); if df is not None: ...
Download ==
    /\ pc = "download"
    /\ \E o \in ProviderOutcomes :
          LET t == Catalog[idx].ticker
              r == download_data(t, start, end, o)
          IN  /\ providerCalls' = providerCalls + r.calls
              /\ IF r.exc # NULL
                 THEN /\ result' = r.exc
                      /\ pc' = "idle"
                      /\ UNCHANGED <<idx, df, fetched>>
                 ELSE IF r.none
                 THEN /\ fetched' = (t :> [kind |-> o.kind, none |-> TRUE,
                                            rev |-> 0]) @@ fetched
                      /\ df' = << >>
                      /\ NextEntry
                 ELSE /\ fetched' = (t :> [kind |-> o.kind, none |-> FALSE,
                                            rev |-> o.rev]) @@ fetched
                      /\ df' = r.df
                      /\ pc' = "store_price"
                      /\ UNCHANGED <<idx, result>>
    /\ UNCHANGED <<connection, store, start, end, released, closes, runs,
                   faults, written_price, written_returns, touched, prev,
                   snap, lastCall, priceFailed, lastOp>>

\* the exception of a store function leaves build_database
Raise ==
    /\ result' = "StorageError"
    /\ pc' = "idle"
    /\ UNCHANGED <<idx, df>>

\* numbers of rows a failing executemany may have applied; all of them when
\* it is commit() that fails
FailPoints(len) == (0..Min(len - 1, MaxPartial)) \cup {len}

RowMap(rows) ==
    [k \in {Key(rows[i]) : i \in 1..Len(rows)} |->
        rows[CHOOSE i \in 1..Len(rows) :
                /\ Key(rows[i]) = k
                /\ \A j \in (i + 1)..Len(rows) : Key(rows[j]) # k]]

(***************************************************************************)
(* store_price_data(ticker, df, asset_class)                               *)
(***************************************************************************)
store_price_data ==
    /\ pc = "store_price"
    /\ LET t    == Catalog[idx].ticker
           rows == PriceRows(t, df, Catalog[idx].asset_class)
       IN  \/ /\ connection = "closed"
              /\ Raise
              /\ priceFailed' = TRUE
              /\ UNCHANGED <<store, faults, written_price, touched, lastCall>>
           \/ /\ connection = "open"
              /\ price_data' = executemany(price_data, rows, Len(rows))
              /\ committed_price' = price_data'
              /\ committed_returns' = returns_data
              /\ pc' = "store_returns"
              /\ written_price' = written_price \cup {t}
              /\ touched' = touched \cup {t}
              /\ lastCall' = RowMap(rows) @@ lastCall
              /\ UNCHANGED <<returns_data, idx, df, result, faults,
                             priceFailed>>
           \/ /\ connection = "open"
              /\ faults < MaxFaults
              /\ \E n \in FailPoints(Len(rows)) :
                    /\ price_data' = executemany(price_data, rows, n)
                    /\ touched' = IF n > 0 THEN touched \cup {t} ELSE touched
              /\ faults' = faults + 1
              /\ Raise
              /\ priceFailed' = TRUE
              /\ UNCHANGED <<returns_data, committed_price, committed_returns,
                             written_price, lastCall>>
    /\ UNCHANGED <<connection, start, end, released, closes, runs,
                   providerCalls, fetched, written_returns, prev, snap,
                   lastOp>>

\* calculate_and_store_returns without its commit()
calculate_and_store_returns_no_commit ==
    /\ pc = "store_returns"
    /\ LET t    == Catalog[idx].ticker
           rows == ReturnRows(t, df, Catalog[idx].asset_class)
       IN  \/ /\ connection = "closed"
              /\ Raise
              /\ UNCHANGED <<store, faults, written_returns, touched>>
           \/ /\ connection = "open"
              /\ returns_data' = executemany(returns_data, rows, Len(rows))
              /\ UNCHANGED <<committed_returns, committed_price>>
              /\ written_returns' = written_returns \cup {t}
              /\ touched' = touched \cup {t}
              /\ NextEntry
              /\ UNCHANGED <<price_data, df, faults>>
           \/ /\ connection = "open"
              /\ faults < MaxFaults
              /\ \E n \in FailPoints(Len(rows)) :
                    /\ returns_data' = executemany(returns_data, rows, n)
                    /\ touched' = IF n > 0 THEN touched \cup {t} ELSE touched
              /\ faults' = faults + 1
              /\ Raise
              /\ UNCHANGED <<price_data, committed_price, committed_returns,
                             written_returns>>
    /\ UNCHANGED <<connection, start, end, released, closes, runs,
                   providerCalls, fetched, written_price, prev, snap,
                   lastCall, priceFailed, lastOp>>

(***************************************************************************)
(* calculate_and_store_returns(ticker, df, asset_class)                    *)
(***************************************************************************)
calculate_and_store_returns ==
    /\ pc = "store_returns"
    /\ LET t    == Catalog[idx].ticker
           rows == ReturnRows(t, df, Catalog[idx].asset_class)
       IN  \/ /\ connection = "closed"
              /\ Raise
              /\ UNCHANGED <<store, faults, written_returns, touched>>
           \/ /\ connection = "open"
              /\ returns_data' = executemany(returns_data, rows, Len(rows))
              /\ committed_returns' = returns_data'
              /\ committed_price' = price_data
              /\ written_returns' = written_returns \cup {t}
              /\ touched' = touched \cup {t}
              /\ NextEntry
              /\ UNCHANGED <<price_data, df, faults>>
           \/ /\ connection = "open"
              /\ faults < MaxFaults
              /\ \E n \in FailPoints(Len(rows)) :
                    /\ returns_data' = executemany(returns_data, rows, n)
                    /\ touched' = IF n > 0 THEN touched \cup {t} ELSE touched
              /\ faults' = faults + 1
              /\ Raise
              /\ UNCHANGED <<price_data, committed_price, committed_returns,
                             written_returns>>
    /\ UNCHANGED <<connection, start, end, released, closes, runs,
                   providerCalls, fetched, written_price, prev, snap,
                   lastCall, priceFailed, lastOp>>

Next ==
    \/ build_database
    \/ Download
    \/ store_price_data
    \/ calculate_and_store_returns
    \/ close_connection

Spec == Init /\ [][Next]_vars

(***************************************************************************)
(* calculate_and_store_returns on its own, called on a new pipeline (or on *)
(* one already closed) with a date-ordered frame whose adjusted close is   *)
(* strictly increasing and differs from its raw close.                     *)
(***************************************************************************)
IncreasingFrame(len, base, inc, bend) ==
    [i \in 1..len |->
        LET adj == base + inc * i + bend * ((i * (i - 1)) \div 2)
        IN  [date |-> i, Open |-> 2 * adj, High |-> 2 * adj + 2,
             Low |-> 2 * adj - 1, Close |-> 2 * adj + 1, Volume |-> 500 + i,
             Adj_Close |-> adj]]

InitReturns ==
    /\ connection \in {"open", "closed"}
    /\ price_data = {}
    /\ returns_data = {}
    /\ committed_price = {}
    /\ committed_returns = {}
    /\ pc = "store_returns"
    /\ start = 1
    /\ end = MaxObs + 1
    /\ idx = 1
    /\ \E len \in 0..MaxObs, base \in 1..MaxBase, inc \in 1..MaxInc,
          bend \in 0..MaxBend :
          df = IncreasingFrame(len, base, inc, bend)
    /\ result = "running"
    /\ released = IF connection = "closed" THEN 1 ELSE 0
    /\ closes = released
    /\ runs = 0
    /\ faults = 0
    /\ providerCalls = 0
    /\ fetched = EmptyFun
    /\ written_price = {}
    /\ written_returns = {}
    /\ touched = {}
    /\ prev = [ok |-> FALSE, range |-> <<0, 0>>, fetched |-> EmptyFun]
    /\ snap = [price |-> {}, returns |-> {}, committed_price |-> {},
               committed_returns |-> {}]
    /\ lastCall = EmptyFun
    /\ priceFailed = FALSE
    /\ lastOp = "__init__"

NextReturns == calculate_and_store_returns

SpecReturns == InitReturns /\ [][NextReturns]_vars

(***************************************************************************)
(* Properties.                                                             *)
(***************************************************************************)
RowsOf(table, t) == {r \in table : r.ticker = t}

RaisedOrReturned == pc = "idle" /\ runs > 0

\* C1: a ticker for which the provider raised the unknown-ticker error
\* (ValueError), raised any other exception, or returned an empty frame gets
\* None from download_data and no exception: build_database runs no write
\* statement for it and leaves its rows in both tables as they were, it is
\* never the entry at which build_database stops with an exception, and a
\* build_database call that returns has been through every catalog entry.
C1_ProviderFaultSkipped ==
    /\ result \in {"none", "running", "returned", "ValueError", "StorageError"}
    /\ result = "ValueError" => end <= start
    /\ \A t \in DOMAIN fetched :
          /\ fetched[t].kind \in {"ValueError", "Exception", "empty"}
                => fetched[t].none
          /\ fetched[t].none =>
                /\ t \notin touched
                /\ RowsOf(price_data, t) = RowsOf(snap.price, t)
                      \/ lastOp = "close_connection"
                /\ RowsOf(returns_data, t) = RowsOf(snap.returns, t)
                      \/ lastOp = "close_connection"
    /\ (RaisedOrReturned /\ result # "returned") =>
          \/ Catalog[idx].ticker \notin DOMAIN fetched
          \/ ~fetched[Catalog[idx].ticker].none
    /\ (RaisedOrReturned /\ result = "returned") => DOMAIN fetched = Tickers
    /\ pc # "idle" => \A i \in 1..(idx - 1) : Catalog[i].ticker \in DOMAIN fetched

\* C1 witness: a call that returned after the provider raised an error for
\* the first catalog entry and the next entry was fetched and stored.
C1_Witness ==
    /\ RaisedOrReturned
    /\ result = "returned"
    /\ \E i \in 1..Len(Catalog), j \in 1..Len(Catalog) :
          /\ i < j
          /\ fetched[Catalog[i].ticker].kind = "Exception"
          /\ Catalog[j].ticker \in written_returns
          /\ RowsOf(returns_data, Catalog[j].ticker) # {}
          /\ RowsOf(returns_data, Catalog[i].ticker) = {}

\* C4: build_database (hence download_data, for the first catalog entry)
\* called with end <= start raises ValueError at once: the provider has not
\* been called, no write statement has run and the tables are as they were
\* when the call began.
C4_InvalidRange ==
    /\ result = "ValueError" => end <= start
    /\ (runs > 0 /\ end <= start) =>
          /\ idx = 1
          /\ providerCalls = 0
          /\ touched = {}
          /\ DOMAIN fetched = {}
          /\ \/ pc = "download" /\ result = "running"
             \/ pc = "idle" /\ result = "ValueError"
          /\ lastOp = "build_database" => Snapshot = snap

\* C4 witness: ValueError from a call with end < start on a pipeline that
\* has stored rows before.
C4_Witness ==
    /\ result = "ValueError"
    /\ end < start
    /\ price_data # {}
    /\ lastOp = "build_database"

\* the value a return column must hold at position i (from 1) of a series
\* with adjusted closes adj, for horizon k
ReturnIs(r, adj, i, k) ==
    IF i <= k
    THEN r = NaN
    ELSE /\ r.den > 0
         /\ r.num * adj[i - k] = (adj[i] - adj[i - k]) * r.den

\* C7: for a date-ordered frame with strictly increasing adjusted close,
\* calculate_and_store_returns writes exactly one row per observation, with
\* return_kd NaN on the first k rows and (adj[i] - adj[i-k]) / adj[i-k], from
\* the adjusted close, on every later row, for k = 1, 5, 21.
C7_Returns ==
    written_returns # {} =>
        LET t   == Catalog[1].ticker
            adj == [i \in 1..Len(df) |-> df[i].Adj_Close]
        IN  /\ Cardinality(returns_data) = Len(df)
            /\ \A i \in 1..Len(df) :
                  \E r \in returns_data :
                     /\ Key(r) = <<t, df[i].date>>
                     /\ ReturnIs(r.return_1d, adj, i, 1)
                     /\ ReturnIs(r.return_5d, adj, i, 5)
                     /\ ReturnIs(r.return_21d, adj, i, 21)

\* C7 witness: a stored series long enough for a 21-day return.
C7_Witness ==
    /\ written_returns # {}
    /\ Len(df) = MaxObs
    /\ \E r \in returns_data :
          /\ r.return_21d # NaN
          /\ r.return_5d # NaN
          /\ r.return_1d.num > 0

\* C2: each store_price_data / calculate_and_store_returns call is atomic,
\* also after a call failed part-way and another call then succeeded on the
\* same connection: the committed price_data holds only rows that a
\* successful store_price_data call wrote, never rows of a failed call.
C2_AtomicUpsert ==
    \A r \in committed_price :
        /\ Key(r) \in DOMAIN lastCall
        /\ lastCall[Key(r)] = r

\* C3: a store_price_data or calculate_and_store_returns call that fails for
\* one ticker does not abort build_database: with a valid range and an open
\* connection the call returns, after fetching every catalog entry.
C3_WriteFailureDoesNotAbort ==
    (RaisedOrReturned /\ end > start /\ connection = "open"
        /\ lastOp = "build_database") =>
        /\ result = "returned"
        /\ DOMAIN fetched = Tickers

\* this build_database call directly follows one that returned, has the same
\* range, and the provider has given what it gave then
SameAsBefore ==
    /\ prev.ok
    /\ lastOp = "build_database"
    /\ prev.range = <<start, end>>
    /\ \A t \in DOMAIN fetched : Gave(fetched)[t] = prev.fetched[t]

\* C5: with a provider that gives the same result for the same (ticker,
\* start, end), a second build_database call with the same range, right
\* after one that returned, leaves price_data and returns_data (as seen on
\* the connection and as committed) as the first call left them.
C5_RunTwice == SameAsBefore => Snapshot = snap

\* C5 witness: the second of two such calls has returned, having written the
\* rows of every ticker again.
C5_Witness ==
    /\ SameAsBefore
    /\ RaisedOrReturned
    /\ result = "returned"
    /\ written_returns = Tickers
    /\ start = 1

\* C6: while every store_price_data call has succeeded, price_data holds
\* exactly one row per (ticker, date) ever written, equal in every column to
\* the row of the latest call that held the key, so the number of rows of a
\* ticker is the number of its distinct keys written, and all of it is
\* committed.
C6_Upsert ==
    ~priceFailed =>
        /\ \A r1 \in price_data, r2 \in price_data : Key(r1) = Key(r2) => r1 = r2
        /\ {Key(r) : r \in price_data} = DOMAIN lastCall
        /\ \A r \in price_data : lastCall[Key(r)] = r
        /\ \A t \in Tickers :
              Cardinality(RowsOf(price_data, t))
                 = Cardinality({k \in DOMAIN lastCall : k[1] = t})
        /\ committed_price = price_data

\* C6 witness: a call has replaced stored rows by rows with other values, and
\* the number of rows of the ticker is what it was.
C6_Witness ==
    /\ ~priceFailed
    /\ RaisedOrReturned
    /\ \E t \in written_price :
          /\ \E r \in price_data, q \in snap.price :
                Key(r) = Key(q) /\ r.ticker = t /\ r.close # q.close
          /\ Cardinality(RowsOf(price_data, t))
                = Cardinality(RowsOf(snap.price, t))

\* C8: close_connection can be called any number of times: the first call
\* releases the handle, no later call releases it again or changes anything
\* of the store or of the pipeline.
C8_CloseIdempotent ==
    [][closes' = closes + 1 =>
          /\ connection' = "closed"
          /\ released' = 1
          /\ connection = "closed" =>
                /\ released' = released
                /\ UNCHANGED <<store, pc, start, end, idx, df, result>>]_vars

\* C8 witness: a second close_connection call, on a store that holds rows.
C8_Witness ==
    /\ closes = 2
    /\ released = 1
    /\ connection = "closed"
    /\ committed_returns # {}

\* C9: the returns a build_database call writes come from the frame fetched
\* in that call alone: for every ticker it has stored, the returns_data row
\* of the i-th date of the fetched frame has return_kd NaN for i <= k and the
\* change over k rows of that frame for i > k (k = 1, 5, 21), whatever
\* returns_data held for that date before.
C9_ReturnsFromBatchOnly ==
    \A t \in written_returns :
        LET batch == history(t, start, end, fetched[t].rev)
            adj   == [i \in 1..Len(batch) |-> batch[i].Adj_Close]
        IN  \A i \in 1..Len(batch) :
              /\ \E r \in returns_data : Key(r) = <<t, batch[i].date>>
              /\ \A r \in returns_data :
                    Key(r) = <<t, batch[i].date>> =>
                       /\ ReturnIs(r.return_1d, adj, i, 1)
                       /\ ReturnIs(r.return_5d, adj, i, 5)
                       /\ ReturnIs(r.return_21d, adj, i, 21)

\* C9 witness: a call with a range that starts later than that of the call
\* before it has replaced stored 1-, 5- and 21-day returns by NaN.
C9_Witness ==
    /\ RaisedOrReturned
    /\ result = "returned"
    /\ prev.ok
    /\ start > prev.range[1]
    /\ end = prev.range[2]
    /\ \E t \in written_returns :
          /\ \E r \in returns_data, q \in snap.returns :
                Key(r) = Key(q) /\ r.ticker = t
                   /\ q.return_1d # NaN /\ r.return_1d = NaN
          /\ \E r \in returns_data, q \in snap.returns :
                Key(r) = Key(q) /\ r.ticker = t
                   /\ q.return_5d # NaN /\ r.return_5d = NaN
          /\ \E r \in returns_data, q \in snap.returns :
                Key(r) = Key(q) /\ r.ticker = t
                   /\ q.return_21d # NaN /\ r.return_21d = NaN

\* the two tables hold the same (ticker, date) keys, with the same
\* asset_class
Consistent(prices, returns) ==
    {<<r.ticker, r.date, r.asset_class>> : r \in prices}
        = {<<r.ticker, r.date, r.asset_class>> : r \in returns}

\* C10: a build_database call that returns keeps the two tables on the same
\* keys and asset classes: if the tables the connection showed when the call
\* began agreed, so do those it shows at the end; and if the committed tables
\* agreed and no uncommitted rows were pending, the committed tables agree
\* at the end.
C10_TablesAgree ==
    (RaisedOrReturned /\ result = "returned" /\ lastOp = "build_database") =>
        /\ Consistent(snap.price, snap.returns)
              => Consistent(price_data, returns_data)
        /\ (/\ Consistent(snap.committed_price, snap.committed_returns)
            /\ snap.price = snap.committed_price
            /\ snap.returns = snap.committed_returns)
              => Consistent(committed_price, committed_returns)

\* C10 witness: a call that began on agreeing, non-empty tables has returned
\* after storing rows the tables did not hold.
C10_Witness ==
    /\ RaisedOrReturned
    /\ result = "returned"
    /\ lastOp = "build_database"
    /\ Consistent(snap.price, snap.returns)
    /\ snap.price # {}
    /\ written_returns # {}
    /\ ~(price_data \subseteq snap.price)

=============================================================================
